---- MODULE Spec2Model ----
(***************************************************************************)
(* LinePrinter (src/src/line_printer.cc), POSIX build: the status-line     *)
(* renderer of the build tool.  Strings are sequences of one-character     *)
(* strings; ESC stands for the byte 0x1B.                                  *)
(***************************************************************************)
EXTENDS Integers, Sequences, FiniteSets, TLC

\* ---------------------------------------------------------------- bounds
\* Longest output_buffer_ the model lets the locked console accumulate.
MaxBuf == 3
\* Longest cursor line the model lets the terminal hold.
MaxCol == 8
\* The terminal width ioctl(TIOCGWINSZ) reports when it succeeds.
NarrowCols == 5

\* ------------------------------------------------------------ characters
ESC == "ESC"
LineTerminators == {"\n", "\r"}
ProgressChars == {" ", "0", "1", "2", "3", "4", "5", "6", "7", "8", "9"}

SetMax(S) == CHOOSE x \in S : \A y \in S : y <= x
SetMin(S) == CHOOSE x \in S : \A y \in S : x <= y

\* lit occurs in s starting at index i.
IsPrefixAt(lit, s, i) ==
    /\ i >= 1
    /\ i + Len(lit) - 1 <= Len(s)
    /\ \A j \in 1..Len(lit) : s[i + j - 1] = lit[j]

\* Index of the first line terminator of s at or after k (Len(s)+1 if none):
\* where a regex `.*' starting at k has to stop.
LineEnd(s, k) ==
    LET T == {j \in k..Len(s) : s[j] \in LineTerminators}
    IN  IF T = {} THEN Len(s) + 1 ELSE SetMin(T)

\* Last index of the longest run of characters outside excl starting at k
\* (k-1 when s[k] is in excl or k is past the end).
RunEnd(s, k, excl) ==
    LET B == {j \in k..Len(s) : s[j] \in excl}
    IN  IF B = {} THEN Len(s) ELSE SetMin(B) - 1

\* Last index of the longest run of characters inside incl starting at k.
RunEndIn(s, k, incl) ==
    LET B == {j \in k..Len(s) : s[j] \notin incl}
    IN  IF B = {} THEN Len(s) ELSE SetMin(B) - 1

NoMatch == [ok |-> FALSE, end |-> 0, g1 |-> <<>>, g2 |-> <<>>]

\* ------------------------------------------------- CustomFormat's rules
\* kind "rest": literal(.*)            -> out[1] $1 out[2]
\* kind "last": literal(.*) ([^ ]+)    -> out[1] $1 out[2] $2 out[3]
\* kind "dir" : [^/ ]+literal          -> out[1]
\* kind "lit" : literal                -> out[1]
\* kind "prog": \[([ 0-9]+)/([ 0-9]+)\] -> out[1] $1 out[2] $2 out[3]
FormatRule1 ==
    [kind |-> "rest",
     lit  |-> <<"B", "u", "i", "l", "d", "i", "n", "g", " ", "f", "l", "a", "t", "b", "u", "f", "f", "e", "r", " ", "f", "o", "r", " ">>,
     out  |-> <<<<ESC, "[", "3", "5", "m", "b", "u", "i", "l", "d", "i", "n", "g", " ", "f", "l", "a", "t", "b", "u", "f", "f", "e", "r", ESC, "[", "0", "m", " ", ESC, "[", "3", "4", "m">>,
               <<ESC, "[", "0", "m">>>>]

FormatRule2 ==
    [kind |-> "rest",
     lit  |-> <<"B", "u", "i", "l", "d", "i", "n", "g", " ", "r", "n", "l", " ", "d", "e", "f", "i", "n", "i", "t", "i", "o", "n", " ">>,
     out  |-> <<<<ESC, "[", "3", "6", "m", "b", "u", "i", "l", "d", "i", "n", "g", " ", "r", "n", "l", " ", "s", "c", "r", "i", "p", "t", ESC, "[", "0", "m", " ", ESC, "[", "3", "4", "m">>,
               <<ESC, "[", "0", "m">>>>]

FormatRule3 ==
    [kind |-> "last",
     lit  |-> <<"B", "u", "i", "l", "d", "i", "n", "g", " ", "C", "X", "X">>,
     out  |-> <<<<ESC, "[", "3", "2", "m", "b", "u", "i", "l", "d", "i", "n", "g", " ", "c", "+", "+">>,
               <<" ", ESC, "[", "3", "4", "m">>,
               <<ESC, "[", "0", "m">>>>]

FormatRule4 ==
    [kind |-> "last",
     lit  |-> <<"L", "i", "n", "k", "i", "n", "g", " ", "C", "X", "X", " ", "s", "t", "a", "t", "i", "c", " ", "l", "i", "b", "r", "a", "r", "y">>,
     out  |-> <<<<ESC, "[", "3", "3", ";", "1", "m", "l", "i", "n", "k", "i", "n", "g", ":", " ", "c", "+", "+", " ", "s", "t", "a", "t", "i", "c">>,
               <<" ", ESC, "[", "3", "4", ";", "1", "m">>,
               <<ESC, "[", "0", "m">>>>]

FormatRule5 ==
    [kind |-> "last",
     lit  |-> <<"B", "u", "i", "l", "d", "i", "n", "g", " ", "C">>,
     out  |-> <<<<ESC, "[", "3", "2", "m", "b", "u", "i", "l", "d", "i", "n", "g", " ", "c", " ", " ">>,
               <<" ", ESC, "[", "3", "4", "m">>,
               <<ESC, "[", "0", "m">>>>]

FormatRule6 ==
    [kind |-> "last",
     lit  |-> <<"L", "i", "n", "k", "i", "n", "g", " ", "C", "X", "X", " ", "e", "x", "e", "c", "u", "t", "a", "b", "l", "e">>,
     out  |-> <<<<ESC, "[", "3", "3", ";", "1", "m", "l", "i", "n", "k", "i", "n", "g", ":", " ", "c", "+", "+", " ", "b", "i", "n", "a", "r", "y">>,
               <<" ", ESC, "[", "3", "4", ";", "1", "m">>,
               <<ESC, "[", "0", "m">>>>]

FormatRule7 ==
    [kind |-> "last",
     lit  |-> <<"L", "i", "n", "k", "i", "n", "g", " ", "C", " ", "s", "t", "a", "t", "i", "c", " ", "l", "i", "b", "r", "a", "r", "y">>,
     out  |-> <<<<ESC, "[", "3", "3", ";", "1", "m", "l", "i", "n", "k", "i", "n", "g", ":", " ", "c", " ", " ", " ", "s", "t", "a", "t", "i", "c">>,
               <<" ", ESC, "[", "3", "4", ";", "1", "m">>,
               <<ESC, "[", "0", "m">>>>]

FormatRule8 ==
    [kind |-> "last",
     lit  |-> <<"L", "i", "n", "k", "i", "n", "g", " ", "C">>,
     out  |-> <<<<ESC, "[", "3", "3", ";", "1", "m", "l", "i", "n", "k", "i", "n", "g", ":", " ", "c", " ", " ">>,
               <<" ", ESC, "[", "3", "4", ";", "1", "m">>,
               <<ESC, "[", "0", "m">>>>]

FormatRule9 ==
    [kind |-> "dir",
     lit  |-> <<".", "d", "i", "r", "/">>,
     out  |-> <<<<>>>>]

FormatRule10 ==
    [kind |-> "lit",
     lit  |-> <<"C", "M", "a", "k", "e", "F", "i", "l", "e", "s", "/">>,
     out  |-> <<<<>>>>]

FormatRule11 ==
    [kind |-> "lit",
     lit  |-> <<".", "c", "p", "p", ".", "o">>,
     out  |-> <<<<".", "c", "p", "p">>>>]

FormatRule12 ==
    [kind |-> "prog",
     lit  |-> <<"[">>,
     out  |-> <<<<"[", ESC, "[", "3", "7", ";", "1", "m">>,
               <<ESC, "[", "0", "m", "/", ESC, "[", "3", "7", "m">>,
               <<ESC, "[", "0", "m", "]">>>>]

FormatRules == <<FormatRule1, FormatRule2, FormatRule3, FormatRule4, FormatRule5, FormatRule6,
                FormatRule7, FormatRule8, FormatRule9, FormatRule10, FormatRule11, FormatRule12>>

\* The match of rule r that starts exactly at index i of s, as the
\* backtracking matcher of std::regex (ECMAScript grammar) finds it: greedy
\* quantifiers, `.' excluding line terminators.
MatchAt(r, s, i) ==
    LET k == i + Len(r.lit)
    IN  CASE r.kind = "lit" ->
               IF IsPrefixAt(r.lit, s, i)
               THEN [ok |-> TRUE, end |-> k - 1, g1 |-> <<>>, g2 |-> <<>>]
               ELSE NoMatch
          [] r.kind = "rest" ->
               IF IsPrefixAt(r.lit, s, i)
               THEN LET le == LineEnd(s, k)
                    IN  [ok |-> TRUE, end |-> le - 1,
                         g1 |-> SubSeq(s, k, le - 1), g2 |-> <<>>]
               ELSE NoMatch
          [] r.kind = "last" ->
               IF IsPrefixAt(r.lit, s, i)
               THEN LET le == LineEnd(s, k)
                        P  == {p \in k..(le - 1) :
                                 /\ s[p] = " "
                                 /\ p + 1 <= Len(s)
                                 /\ s[p + 1] # " "}
                    IN  IF P = {} THEN NoMatch
                        ELSE LET p == SetMax(P)
                                 e == RunEnd(s, p + 1, {" "})
                             IN  [ok |-> TRUE, end |-> e,
                                  g1 |-> SubSeq(s, k, p - 1),
                                  g2 |-> SubSeq(s, p + 1, e)]
               ELSE NoMatch
          [] r.kind = "dir" ->
               LET J == {j \in i..RunEnd(s, i, {"/", " "}) :
                           IsPrefixAt(r.lit, s, j + 1)}
               IN  IF J = {} THEN NoMatch
                   ELSE [ok |-> TRUE, end |-> SetMax(J) + Len(r.lit),
                         g1 |-> <<>>, g2 |-> <<>>]
          [] r.kind = "prog" ->
               IF IsPrefixAt(r.lit, s, i)
               THEN LET a == RunEndIn(s, i + 1, ProgressChars)
                        b == RunEndIn(s, a + 2, ProgressChars)
                    IN  IF /\ a >= i + 1
                           /\ a + 1 <= Len(s) /\ s[a + 1] = "/"
                           /\ b >= a + 2
                           /\ b + 1 <= Len(s) /\ s[b + 1] = "]"
                        THEN [ok |-> TRUE, end |-> b + 1,
                              g1 |-> SubSeq(s, i + 1, a),
                              g2 |-> SubSeq(s, a + 2, b)]
                        ELSE NoMatch
               ELSE NoMatch

\* The format string of rule r with the captures of match m substituted.
Substitute(r, m) ==
    CASE r.kind \in {"lit", "dir"} -> r.out[1]
      [] r.kind = "rest" -> r.out[1] \o m.g1 \o r.out[2]
      [] r.kind \in {"last", "prog"} ->
           r.out[1] \o m.g1 \o r.out[2] \o m.g2 \o r.out[3]

\* std::regex_replace(s, r, fmt): every non-overlapping match, found left to
\* right from index i on (regex_search: the leftmost start that matches), is
\* replaced; the characters between matches are copied.
RECURSIVE RegexReplaceFrom(_, _, _)
RegexReplaceFrom(r, s, i) ==
    LET starts == {j \in i..Len(s) : MatchAt(r, s, j).ok}
    IN  IF starts = {} THEN SubSeq(s, i, Len(s))
        ELSE LET j == SetMin(starts)
                 m == MatchAt(r, s, j)
             IN  SubSeq(s, i, j - 1) \o Substitute(r, m)
                   \o RegexReplaceFrom(r, s, m.end + 1)

RegexReplace(r, s) == RegexReplaceFrom(r, s, 1)

\* The rules n..12 applied in order, each to the result of the one before.
RECURSIVE ApplyRulesFrom(_, _)
ApplyRulesFrom(n, s) ==
    IF n > Len(FormatRules) THEN s
    ELSE ApplyRulesFrom(n + 1, RegexReplace(FormatRules[n], s))


\* ElideMiddle (util.cc, outside src/), from its contract: a text longer than
\* width has a middle span replaced by "..." so that the result is exactly
\* width long, keeping as much of the start and of the end as fits.
ElideMiddle(str, width) ==
    IF Len(str) <= width THEN str
    ELSE IF width < 3 THEN [i \in 1..width |-> "."]
    ELSE LET keep  == width - 3
             front == (keep + 1) \div 2
             back  == keep \div 2
         IN  SubSeq(str, 1, front) \o <<".", ".", ".">>
               \o SubSeq(str, Len(str) - back + 1, Len(str))

\* ------------------------------------------------------- the environment
NULL == "NULL"                     \* getenv() of an unset variable
Uninitialized == "uninitialized"   \* a function-local static not yet set
Indeterminate == "indeterminate"   \* a member no constructor has written
FULL == "FULL"
ELIDE == "ELIDE"
LineType == {FULL, ELIDE}

TermValues == {NULL, "dumb", "xterm"}
ClicolorForceValues == {NULL, "0", "1"}
ReformatEnvValues == {NULL, "pretty", "x"}
StatusEnvValues == {NULL, "multiline", "scrolling", "x"}
\* What ioctl(STDOUT_FILENO, TIOCGWINSZ, &size) can give: failure, a zero
\* width, a width.
WinSizes == {[rc |-> -1, ws_col |-> 0], [rc |-> 0, ws_col |-> 0],
             [rc |-> 0, ws_col |-> NarrowCols]}

\* The texts callers pass in.
LongText == <<".", "c", "p", "p", ".", "o", ".", "o">>
Texts == {<<>>, <<"a">>, <<"\n">>, <<"a", "\n">>, <<"\n", "a">>, LongText}

\* CustomFormat: the twelve rules in order.  (FormatTable holds the results
\* for the texts above and for what the rules make of them, so that they are
\* computed once.)
FormatTable ==
    [t \in Texts \cup {ApplyRulesFrom(1, x) : x \in Texts} |->
       ApplyRulesFrom(1, t)]

CustomFormat(input) ==
    IF input \in DOMAIN FormatTable THEN FormatTable[input]
    ELSE ApplyRulesFrom(1, input)

\* ------------------------------------------------------------ the object
\* A LinePrinter, the two function-local statics, and the bytes the running
\* call has handed to stdout so far (via: the stdio call that wrote each).
\* fault: the running call has read a character of a string that has none
\* (s[0], &s[0] or *s.rbegin() of an empty s), or the line_type_ that the
\* constructor left unset.
ClearToEol == <<ESC, "[", "K">>

\* The last newline among bytes (0: none).
LastNewline(bytes) ==
    SetMax({0} \union {i \in 1..Len(bytes) : bytes[i] = "\n"})

\* A write to stdout.  On a terminal stdout is line buffered: a write with a
\* newline in it sends what the buffer holds and its own bytes up to its last
\* newline to the device; the bytes behind stay in the buffer.  delivered
\* counts the bytes sent, of the held bytes the call found in the buffer
\* followed by the bytes of stdout.
Printf(lp, bytes) ==
    [lp EXCEPT !.stdout = @ \o bytes,
               !.via = @ \o [i \in 1..Len(bytes) |-> "printf"],
               !.delivered =
                  IF lp.line_buffered /\ LastNewline(bytes) > 0
                  THEN lp.held + Len(lp.stdout) + LastNewline(bytes)
                  ELSE @]

Fwrite(lp, bytes) ==
    [lp EXCEPT !.stdout = @ \o bytes,
               !.via = @ \o [i \in 1..Len(bytes) |-> "fwrite"],
               !.delivered =
                  IF lp.line_buffered /\ LastNewline(bytes) > 0
                  THEN lp.held + Len(lp.stdout) + LastNewline(bytes)
                  ELSE @]

\* fflush(stdout): everything in the buffer goes to the device.
Fflush(lp) == [lp EXCEPT !.delivered = lp.held + Len(lp.stdout)]

\* The constructor with an unset TERM counted as a terminal that is not dumb.
LinePrinter_UnsetTermIsSmart(isatty, term, clicolor_force) ==
    LET smart == isatty /\ term # "dumb"
    IN  [have_blank_line_ |-> TRUE,
         console_locked_ |-> FALSE,
         smart_terminal_ |-> smart,
         supports_color_ |-> IF smart THEN TRUE
                             ELSE clicolor_force # NULL /\ clicolor_force # "0",
         line_buffer_ |-> <<>>,
         line_type_ |-> Indeterminate,
         output_buffer_ |-> <<>>,
         reformat_mode |-> Uninitialized,
         status_print_mode |-> Uninitialized,
         stdout |-> <<>>,
         via |-> <<>>,
         line_buffered |-> isatty,
         held |-> 0,
         delivered |-> 0,
         fault |-> FALSE]

LinePrinter(isatty, term, clicolor_force) ==
    LET smart == isatty /\ term # NULL /\ term # "dumb"
    IN  [have_blank_line_ |-> TRUE,
         console_locked_ |-> FALSE,
         smart_terminal_ |-> smart,
         supports_color_ |-> IF smart THEN TRUE
                             ELSE clicolor_force # NULL /\ clicolor_force # "0",
         line_buffer_ |-> <<>>,
         line_type_ |-> Indeterminate,
         output_buffer_ |-> <<>>,
         reformat_mode |-> Uninitialized,
         status_print_mode |-> Uninitialized,
         stdout |-> <<>>,
         via |-> <<>>,
         line_buffered |-> isatty,
         held |-> 0,
         delivered |-> 0,
         fault |-> FALSE]

GetReformatMode(mode, value) ==
    IF mode # Uninitialized THEN mode
    ELSE IF value = NULL THEN "none"
    ELSE IF value = "pretty" THEN "pretty"
    ELSE "none"

\* GetStatusPrintMode with "scrolling" read as the multiline mode.
GetStatusPrintMode_ScrollingAsMultiline(mode, value) ==
    IF mode # Uninitialized THEN mode
    ELSE IF value = NULL THEN "singleline"
    ELSE IF value = "multiline" THEN "multiline"
    ELSE IF value = "scrolling" THEN "multiline"
    ELSE "singleline"

GetStatusPrintMode(mode, value) ==
    IF mode # Uninitialized THEN mode
    ELSE IF value = NULL THEN "singleline"
    ELSE IF value = "multiline" THEN "multiline"
    ELSE IF value = "scrolling" THEN "scrolling"
    ELSE "singleline"

\* Print with the pending line stored before the lock is looked at.
LinePrinter_Print_StoresFirst(lp, to_print0, type, env) ==
    LET rmode == GetReformatMode(lp.reformat_mode, env.reformat)
        to_print == IF rmode = "pretty" THEN CustomFormat(to_print0)
                    ELSE to_print0
        lp1 == [lp EXCEPT !.reformat_mode = rmode,
                          !.line_buffer_ = to_print, !.line_type_ = type]
    IN  IF lp1.console_locked_
        THEN lp1
        ELSE
        LET smode == GetStatusPrintMode(lp1.status_print_mode, env.status)
            lp2 == [lp1 EXCEPT !.status_print_mode = smode]
        IN  IF smode = "multiline"
            THEN Printf(lp2, to_print \o <<"\n">>)
            ELSE
            LET lp3 == IF lp2.smart_terminal_ THEN Printf(lp2, <<"\r">>)
                       ELSE lp2
            IN  IF lp3.smart_terminal_ /\ type = ELIDE
                THEN LET elided ==
                           IF env.winsize.rc = 0 /\ env.winsize.ws_col # 0
                           THEN ElideMiddle(to_print, env.winsize.ws_col)
                           ELSE to_print
                     IN  [Fflush(Printf(Printf(lp3, elided), ClearToEol))
                            EXCEPT !.have_blank_line_ = FALSE]
                ELSE Printf(lp3, to_print \o <<"\n">>)

\* Print without the multiline branch.
LinePrinter_Print_NoMultiline(lp, to_print0, type, env) ==
    LET rmode == GetReformatMode(lp.reformat_mode, env.reformat)
        lp1 == [lp EXCEPT !.reformat_mode = rmode]
        to_print == IF rmode = "pretty" THEN CustomFormat(to_print0)
                    ELSE to_print0
    IN  IF lp1.console_locked_
        THEN [lp1 EXCEPT !.line_buffer_ = to_print, !.line_type_ = type]
        ELSE
        LET smode == GetStatusPrintMode(lp1.status_print_mode, env.status)
            lp2 == [lp1 EXCEPT !.status_print_mode = smode]
        IN  IF FALSE
            THEN Printf(lp2, to_print \o <<"\n">>)
            ELSE
            LET lp3 == IF lp2.smart_terminal_ THEN Printf(lp2, <<"\r">>)
                       ELSE lp2
            IN  IF lp3.smart_terminal_ /\ type = ELIDE
                THEN LET elided ==
                           IF env.winsize.rc = 0 /\ env.winsize.ws_col # 0
                           THEN ElideMiddle(to_print, env.winsize.ws_col)
                           ELSE to_print
                     IN  [Fflush(Printf(Printf(lp3, elided), ClearToEol))
                            EXCEPT !.have_blank_line_ = FALSE]
                ELSE Printf(lp3, to_print \o <<"\n">>)

\* Print without the clear to the end of the line.
LinePrinter_Print_NoClear(lp, to_print0, type, env) ==
    LET rmode == GetReformatMode(lp.reformat_mode, env.reformat)
        lp1 == [lp EXCEPT !.reformat_mode = rmode]
        to_print == IF rmode = "pretty" THEN CustomFormat(to_print0)
                    ELSE to_print0
    IN  IF lp1.console_locked_
        THEN [lp1 EXCEPT !.line_buffer_ = to_print, !.line_type_ = type]
        ELSE
        LET smode == GetStatusPrintMode(lp1.status_print_mode, env.status)
            lp2 == [lp1 EXCEPT !.status_print_mode = smode]
        IN  IF smode = "multiline"
            THEN Printf(lp2, to_print \o <<"\n">>)
            ELSE
            LET lp3 == IF lp2.smart_terminal_ THEN Printf(lp2, <<"\r">>)
                       ELSE lp2
            IN  IF lp3.smart_terminal_ /\ type = ELIDE
                THEN LET elided ==
                           IF env.winsize.rc = 0 /\ env.winsize.ws_col # 0
                           THEN ElideMiddle(to_print, env.winsize.ws_col)
                           ELSE to_print
                     IN  [Fflush(Printf(Printf(lp3, elided), <<>>))
                            EXCEPT !.have_blank_line_ = FALSE]
                ELSE Printf(lp3, to_print \o <<"\n">>)

\* Print that keeps a pending line it already holds.
LinePrinter_Print_KeepsPending(lp, to_print0, type, env) ==
    LET rmode == GetReformatMode(lp.reformat_mode, env.reformat)
        lp1 == [lp EXCEPT !.reformat_mode = rmode]
        to_print == IF rmode = "pretty" THEN CustomFormat(to_print0)
                    ELSE to_print0
    IN  IF lp1.console_locked_
        THEN IF lp1.line_buffer_ # <<>> THEN lp1
             ELSE [lp1 EXCEPT !.line_buffer_ = to_print, !.line_type_ = type]
        ELSE
        LET smode == GetStatusPrintMode(lp1.status_print_mode, env.status)
            lp2 == [lp1 EXCEPT !.status_print_mode = smode]
        IN  IF smode = "multiline"
            THEN Printf(lp2, to_print \o <<"\n">>)
            ELSE
            LET lp3 == IF lp2.smart_terminal_ THEN Printf(lp2, <<"\r">>)
                       ELSE lp2
            IN  IF lp3.smart_terminal_ /\ type = ELIDE
                THEN LET elided ==
                           IF env.winsize.rc = 0 /\ env.winsize.ws_col # 0
                           THEN ElideMiddle(to_print, env.winsize.ws_col)
                           ELSE to_print
                     IN  [Fflush(Printf(Printf(lp3, elided), ClearToEol))
                            EXCEPT !.have_blank_line_ = FALSE]
                ELSE Printf(lp3, to_print \o <<"\n">>)

LinePrinter_Print(lp, to_print0, type, env) ==
    LET rmode == GetReformatMode(lp.reformat_mode, env.reformat)
        lp1 == [lp EXCEPT !.reformat_mode = rmode]
        to_print == IF rmode = "pretty" THEN CustomFormat(to_print0)
                    ELSE to_print0
    IN  IF lp1.console_locked_
        THEN [lp1 EXCEPT !.line_buffer_ = to_print, !.line_type_ = type]
        ELSE
        LET smode == GetStatusPrintMode(lp1.status_print_mode, env.status)
            lp2 == [lp1 EXCEPT !.status_print_mode = smode]
        IN  IF smode = "multiline"
            THEN Printf(lp2, to_print \o <<"\n">>)
            ELSE
            LET lp3 == IF lp2.smart_terminal_ THEN Printf(lp2, <<"\r">>)
                       ELSE lp2
            IN  IF lp3.smart_terminal_ /\ type = ELIDE
                THEN LET elided ==
                           IF env.winsize.rc = 0 /\ env.winsize.ws_col # 0
                           THEN ElideMiddle(to_print, env.winsize.ws_col)
                           ELSE to_print
                     IN  [Fflush(Printf(Printf(lp3, elided), ClearToEol))
                            EXCEPT !.have_blank_line_ = FALSE]
                ELSE Printf(lp3, to_print \o <<"\n">>)

\* PrintOrBuffer without the look at the lock.
PrintOrBuffer_Unchecked(lp, data) == Fwrite(lp, data)

\* &s[0], s[0], *s.rbegin(): a read of the first or last character of s.
CharAccess(lp, s) == IF s = <<>> THEN [lp EXCEPT !.fault = TRUE] ELSE lp

\* A read of line_type_.
LineTypeAccess(lp) ==
    IF lp.line_type_ = Indeterminate THEN [lp EXCEPT !.fault = TRUE] ELSE lp

PrintOrBuffer(lp, data) ==
    IF lp.console_locked_
    THEN [lp EXCEPT !.output_buffer_ = @ \o data]
    ELSE Fwrite(lp, data)

\* The first lines of PrintWithoutNewLine and of PrintOnNewLine: a pending
\* status line of the locked console moves into output_buffer_.
FlushLineBuffer(lp) ==
    IF lp.console_locked_ /\ lp.line_buffer_ # <<>>
    THEN [lp EXCEPT !.output_buffer_ = @ \o lp.line_buffer_ \o <<"\n">>,
                    !.line_buffer_ = <<>>]
    ELSE lp

\* PrintWithoutNewLine with have_blank_line_ taken from the text alone.
PrintWithoutNewLine_FromTextOnly(lp, to_print) ==
    LET lp1 == FlushLineBuffer(lp)
        lp2 == IF to_print # <<>>
               THEN PrintOrBuffer(CharAccess(lp1, to_print), to_print)
               ELSE lp1
        lp3 == IF to_print # <<>> THEN CharAccess(lp2, to_print) ELSE lp2
    IN  [lp3 EXCEPT !.have_blank_line_ =
           to_print # <<>> /\ to_print[1] = "\n"]

PrintWithoutNewLine(lp, to_print) ==
    LET lp1 == FlushLineBuffer(lp)
        lp2 == IF to_print # <<>>
               THEN PrintOrBuffer(CharAccess(lp1, to_print), to_print)
               ELSE lp1
        lp3 == IF to_print # <<>> THEN CharAccess(lp2, to_print) ELSE lp2
    IN  [lp3 EXCEPT !.have_blank_line_ =
           \/ (to_print # <<>> /\ to_print[1] = "\n")
           \/ (to_print = <<>> /\ lp2.have_blank_line_)]

\* PrintOnNewLine with have_blank_line_ taken from the last character alone.
PrintOnNewLine_FromLastCharOnly(lp, to_print) ==
    LET lp1 == FlushLineBuffer(lp)
        lp2 == IF ~lp1.have_blank_line_ THEN PrintOrBuffer(lp1, <<"\n">>)
               ELSE lp1
        lp3 == IF to_print # <<>>
               THEN PrintOrBuffer(CharAccess(lp2, to_print), to_print)
               ELSE lp2
        lp4 == CharAccess(lp3, to_print)
    IN  [lp4 EXCEPT !.have_blank_line_ =
           to_print # <<>> /\ to_print[Len(to_print)] = "\n"]

\* PrintOnNewLine that counts an empty text as leaving the line as it was.
PrintOnNewLine_KeepsFlagOnEmpty(lp, to_print) ==
    LET lp1 == FlushLineBuffer(lp)
        lp2 == IF ~lp1.have_blank_line_ THEN PrintOrBuffer(lp1, <<"\n">>)
               ELSE lp1
        lp3 == IF to_print # <<>>
               THEN PrintOrBuffer(CharAccess(lp2, to_print), to_print)
               ELSE lp2
        lp4 == IF to_print = <<>> THEN lp3 ELSE CharAccess(lp3, to_print)
    IN  [lp4 EXCEPT !.have_blank_line_ =
           IF to_print = <<>> THEN lp.have_blank_line_
           ELSE to_print[Len(to_print)] = "\n"]

PrintOnNewLine(lp, to_print) ==
    LET lp1 == FlushLineBuffer(lp)
        lp2 == IF ~lp1.have_blank_line_ THEN PrintOrBuffer(lp1, <<"\n">>)
               ELSE lp1
        lp3 == IF to_print # <<>>
               THEN PrintOrBuffer(CharAccess(lp2, to_print), to_print)
               ELSE lp2
        lp4 == IF to_print = <<>> THEN lp3 ELSE CharAccess(lp3, to_print)
    IN  [lp4 EXCEPT !.have_blank_line_ =
           to_print = <<>> \/ to_print[Len(to_print)] = "\n"]

\* SetConsoleLocked without the return on an unchanged state.
SetConsoleLocked_NoEarlyReturn(lp, locked, env) ==
    LET lp1 == IF locked
               THEN Fflush(Printf(lp, <<"\r">> \o ClearToEol \o <<"\r">>))
               ELSE lp
        lp2 == [lp1 EXCEPT !.console_locked_ = locked]
    IN  IF ~locked
        THEN LET lp3 == PrintWithoutNewLine(lp2, lp2.output_buffer_)
                 lp4 == IF lp3.line_buffer_ # <<>>
                        THEN LinePrinter_Print(LineTypeAccess(lp3),
                                               lp3.line_buffer_,
                                               lp3.line_type_, env)
                        ELSE lp3
             IN  [lp4 EXCEPT !.output_buffer_ = <<>>, !.line_buffer_ = <<>>]
        ELSE lp2

\* SetConsoleLocked without output_buffer_.clear().
SetConsoleLocked_KeepsBuffer(lp, locked, env) ==
    IF locked = lp.console_locked_ THEN lp
    ELSE
    LET lp1 == IF locked
               THEN Fflush(Printf(lp, <<"\r">> \o ClearToEol \o <<"\r">>))
               ELSE lp
        lp2 == [lp1 EXCEPT !.console_locked_ = locked]
    IN  IF ~locked
        THEN LET lp3 == PrintWithoutNewLine(lp2, lp2.output_buffer_)
                 lp4 == IF lp3.line_buffer_ # <<>>
                        THEN LinePrinter_Print(LineTypeAccess(lp3),
                                               lp3.line_buffer_,
                                               lp3.line_type_, env)
                        ELSE lp3
             IN  [lp4 EXCEPT !.line_buffer_ = <<>>]
        ELSE lp2

SetConsoleLocked(lp, locked, env) ==
    IF locked = lp.console_locked_ THEN lp
    ELSE
    LET lp1 == IF locked
               THEN Fflush(Printf(lp, <<"\r">> \o ClearToEol \o <<"\r">>))
               ELSE lp
        lp2 == [lp1 EXCEPT !.console_locked_ = locked]
    IN  IF ~locked
        THEN LET lp3 == PrintWithoutNewLine(lp2, lp2.output_buffer_)
                 lp4 == IF lp3.line_buffer_ # <<>>
                        THEN LinePrinter_Print(LineTypeAccess(lp3),
                                               lp3.line_buffer_,
                                               lp3.line_type_, env)
                        ELSE lp3
             IN  [lp4 EXCEPT !.output_buffer_ = <<>>, !.line_buffer_ = <<>>]
        ELSE lp2

\* ---------------------------------------------------------- the terminal
\* What the bytes of stdout do to the device behind it: the cells of the
\* cursor's line (each with the character and whether the raw-write path,
\* fwrite, put it there) and the cursor's column.  "\n" starts a new line at
\* column 0 (ONLCR), "\r" returns to column 0, ESC [ K erases from the cursor
\* to the end of the line, other ESC [ ... sequences print nothing.  Lines do
\* not wrap.  blank_above: the line just above the cursor's is empty.  gap and
\* damaged report on the running call: a non-empty line was completed under
\* an empty one; a cell written by fwrite was overwritten or erased.
CsiParams == {"0", "1", "2", "3", "4", "5", "6", "7", "8", "9", ";"}

NewTty ==
    [line |-> <<>>, col |-> 0, blank_above |-> FALSE,
     gap |-> FALSE, damaged |-> FALSE]

PutChar(t, c, raw) ==
    LET pos  == t.col + 1
        cell == [ch |-> c, raw |-> raw]
        over == pos <= Len(t.line)
    IN  [t EXCEPT !.line = IF over THEN [t.line EXCEPT ![pos] = cell]
                           ELSE Append(t.line, cell),
                  !.col = pos,
                  !.damaged = @ \/ (over /\ t.line[pos].raw)]

EraseToEol(t) ==
    [t EXCEPT !.line = SubSeq(t.line, 1, t.col),
              !.damaged = @ \/ \E j \in (t.col + 1)..Len(t.line) : t.line[j].raw]

LineFeed(t) ==
    [t EXCEPT !.line = <<>>,
              !.col = 0,
              !.blank_above = (t.line = <<>>),
              !.gap = @ \/ (t.blank_above /\ t.line # <<>>)]

RECURSIVE TtyWrite(_, _, _, _)
TtyWrite(t, bytes, via, i) ==
    IF i > Len(bytes) THEN t
    ELSE IF bytes[i] = ESC /\ i + 1 <= Len(bytes) /\ bytes[i + 1] = "["
    THEN LET f == RunEndIn(bytes, i + 2, CsiParams) + 1
         IN  TtyWrite(IF f <= Len(bytes) /\ bytes[f] = "K"
                      THEN EraseToEol(t) ELSE t,
                      bytes, via, f + 1)
    ELSE IF bytes[i] = ESC THEN TtyWrite(t, bytes, via, i + 1)
    ELSE IF bytes[i] = "\r"
    THEN TtyWrite([t EXCEPT !.col = 0], bytes, via, i + 1)
    ELSE IF bytes[i] = "\n" THEN TtyWrite(LineFeed(t), bytes, via, i + 1)
    ELSE TtyWrite(PutChar(t, bytes[i], via[i] = "fwrite"), bytes, via, i + 1)

\* ------------------------------------------------------------- the state
VARIABLES
    have_blank_line_, console_locked_, smart_terminal_,
    line_buffer_, line_type_, output_buffer_,
    reformat_mode,       \* the static of GetReformatMode
    status_print_mode,   \* the static of GetStatusPrintMode
    out,                 \* the bytes the last call wrote to stdout
    stdout_isatty,       \* isatty(1): stdout is a terminal, and so line
                         \* buffered
    stdio,               \* the bytes stdout's buffer holds for the terminal
                         \* between calls, not yet sent to it
    tty,                 \* the terminal with the bytes sent to it so far,
                         \* where stdout is one (a stdout that is no terminal
                         \* has only its bytes, out, followed here)
    call,                \* the last call: operation, arguments, and whether
                         \* the console was locked when it was made
    snap,                \* the members and statics as they were before a
                         \* SetConsoleLocked call: one that changed nothing
                         \* to do ("repeat"), or the locking of a lock/unlock
                         \* pair with no call in between ("bracket")
    full_owed,           \* Print was handed WatchedText as a FULL line
                         \* while the console was locked (kept until the
                         \* call after the unlocking)
    bracket              \* progress through: status line, lock, status and
                         \* whole-line raw output, unlock, whole-line raw output

vars == <<have_blank_line_, console_locked_, smart_terminal_,
          line_buffer_, line_type_, output_buffer_, reformat_mode,
          status_print_mode, out, stdout_isatty, stdio, tty, call, snap,
          full_owed, bracket>>

\* The members and statics that the calls below read or write.  (The
\* constructor's supports_color_, which none of them reads, stays with the
\* record of the constructor's call.)
object == <<have_blank_line_, console_locked_, smart_terminal_,
            line_buffer_, line_type_, output_buffer_, reformat_mode,
            status_print_mode>>

Members ==
    [have_blank_line_ |-> have_blank_line_,
     console_locked_ |-> console_locked_,
     smart_terminal_ |-> smart_terminal_,
     line_buffer_ |-> line_buffer_,
     line_type_ |-> line_type_,
     output_buffer_ |-> output_buffer_,
     reformat_mode |-> reformat_mode,
     status_print_mode |-> status_print_mode]

NoSnap == [kind |-> "none"]

\* The bytes SetConsoleLocked(true) clears the cursor's line with.
LineClear == <<"\r">> \o ClearToEol \o <<"\r">>

Self ==
    [have_blank_line_ |-> have_blank_line_,
     console_locked_ |-> console_locked_,
     smart_terminal_ |-> smart_terminal_,
     line_buffer_ |-> line_buffer_,
     line_type_ |-> line_type_,
     output_buffer_ |-> output_buffer_,
     reformat_mode |-> reformat_mode,
     status_print_mode |-> status_print_mode,
     stdout |-> <<>>,
     via |-> <<>>,
     line_buffered |-> stdout_isatty,
     held |-> Len(stdio.bytes),
     delivered |-> 0,
     fault |-> FALSE]

\* What a call can read from the environment: each variable only while its
\* static is not set, the window size only where the call can reach the ioctl
\* (an ELIDE line on a smart terminal).
Envs(type) ==
    {[reformat |-> r, status |-> s, winsize |-> w] :
       r \in IF reformat_mode = Uninitialized THEN ReformatEnvValues ELSE {NULL},
       s \in IF status_print_mode = Uninitialized THEN StatusEnvValues ELSE {NULL},
       w \in IF smart_terminal_ /\ type = ELIDE THEN WinSizes
             ELSE {[rc |-> -1, ws_col |-> 0]}}

\* The FULL line whose way to stdout full_owed follows.
WatchedText == <<"a">>

IsStatusText(text) == text # <<>> /\ \A i \in 1..Len(text) : text[i] # "\n"

\* Non-empty, newline-terminated, no empty line inside.
IsRawLines(text) ==
    /\ text # <<>>
    /\ text[Len(text)] = "\n"
    /\ text[1] # "\n"
    /\ \A i \in 1..(Len(text) - 1) : ~(text[i] = "\n" /\ text[i + 1] = "\n")

BracketNext(b, c) ==
    CASE b = "start" /\ c.op = "Print" /\ c.type = ELIDE /\ IsStatusText(c.text)
           -> "status"
      [] b = "status" /\ c.op = "SetConsoleLocked" /\ c.locked -> "locked"
      [] b = "locked" /\ c.op = "Print" /\ IsStatusText(c.text) -> "locked"
      [] b = "locked" /\ c.op = "PrintOnNewLine" /\ IsRawLines(c.text) -> "locked"
      [] b = "locked" /\ c.op = "SetConsoleLocked" /\ ~c.locked -> "after"
      [] b = "after" /\ c.op = "PrintOnNewLine" /\ IsRawLines(c.text) -> "after"
      [] OTHER -> "off"

\* An empty buffer of stdout.
NoStdio == [bytes |-> <<>>, via |-> <<>>]

\* The call c has run and left the object as lp: the members, the statics,
\* stdout and the terminal after it.
Commit(lp, c) ==
    LET bytes == stdio.bytes \o lp.stdout
        via   == stdio.via \o lp.via
        sent  == IF stdout_isatty THEN lp.delivered ELSE 0
        t == TtyWrite([tty EXCEPT !.gap = FALSE, !.damaged = FALSE],
                      SubSeq(bytes, 1, sent), SubSeq(via, 1, sent), 1)
        kept == IF stdout_isatty
                THEN [bytes |-> SubSeq(bytes, sent + 1, Len(bytes)),
                      via |-> SubSeq(via, sent + 1, Len(via))]
                ELSE NoStdio
    IN  /\ Len(lp.output_buffer_) <= MaxBuf
        /\ Len(t.line) <= MaxCol
        /\ t.col + Len(kept.bytes) <= MaxCol
        /\ stdout_isatty' = stdout_isatty
        /\ stdio' = kept
        /\ have_blank_line_' = lp.have_blank_line_
        /\ console_locked_' = lp.console_locked_
        /\ smart_terminal_' = lp.smart_terminal_
        /\ line_buffer_' = lp.line_buffer_
        /\ line_type_' = lp.line_type_
        /\ output_buffer_' = lp.output_buffer_
        /\ reformat_mode' = lp.reformat_mode
        /\ status_print_mode' = lp.status_print_mode
        /\ out' = lp.stdout
        /\ tty' = t
        /\ snap' =
             IF c.op # "SetConsoleLocked" THEN NoSnap
             ELSE IF c.locked = c.before
             THEN [kind |-> "repeat", obj |-> Members]
             ELSE IF c.locked THEN [kind |-> "bracket", obj |-> Members]
             ELSE IF snap.kind = "bracket" THEN snap
             ELSE NoSnap
        /\ full_owed' =
             IF ~c.before THEN FALSE
             ELSE \/ full_owed
                  \/ c.op = "Print" /\ c.type = FULL /\ c.text = WatchedText
        /\ bracket' = BracketNext(bracket, c)

Init ==
    \E isatty \in BOOLEAN, term \in TermValues, cf \in ClicolorForceValues :
       LET lp == LinePrinter(isatty, term, cf)
       IN  /\ have_blank_line_ = lp.have_blank_line_
           /\ console_locked_ = lp.console_locked_
           /\ smart_terminal_ = lp.smart_terminal_
           /\ line_buffer_ = lp.line_buffer_
           /\ line_type_ = lp.line_type_
           /\ output_buffer_ = lp.output_buffer_
           /\ reformat_mode = lp.reformat_mode
           /\ status_print_mode = lp.status_print_mode
           /\ out = lp.stdout
           /\ stdout_isatty = isatty
           /\ stdio = NoStdio
           /\ tty = NewTty
           /\ call = [op |-> "LinePrinter", isatty |-> isatty, term |-> term,
                      clicolor_force |-> cf,
                      supports_color_ |-> lp.supports_color_]
           /\ snap = NoSnap
           /\ full_owed = FALSE
           /\ bracket = "start"

CallPrint ==
    \E to_print \in Texts, type \in LineType :
    \E env \in Envs(IF console_locked_ THEN FULL ELSE type) :
       LET c == [op |-> "Print", text |-> to_print, type |-> type,
                 locked |-> FALSE, before |-> console_locked_]
       IN  /\ call' = c
           /\ Commit(LinePrinter_Print(Self, to_print, type, env), c)

CallPrintWithoutNewLine ==
    \E to_print \in Texts :
       LET c == [op |-> "PrintWithoutNewLine", text |-> to_print,
                 type |-> FULL, locked |-> FALSE, before |-> console_locked_]
       IN  /\ call' = c
           /\ Commit(PrintWithoutNewLine(Self, to_print), c)

CallPrintOnNewLine ==
    \E to_print \in Texts :
       LET c == [op |-> "PrintOnNewLine", text |-> to_print,
                 type |-> FULL, locked |-> FALSE, before |-> console_locked_]
       IN  /\ call' = c
           /\ Commit(PrintOnNewLine(Self, to_print), c)

CallSetConsoleLocked ==
    \E locked \in BOOLEAN :
    \E env \in Envs(IF console_locked_ /\ ~locked /\ line_buffer_ # <<>>
                     THEN line_type_ ELSE FULL) :
       LET c == [op |-> "SetConsoleLocked", text |-> <<>>, type |-> FULL,
                 locked |-> locked, before |-> console_locked_]
       IN  /\ call' = c
           /\ Commit(SetConsoleLocked(Self, locked, env), c)

Next ==
    \/ CallPrint
    \/ CallPrintWithoutNewLine
    \/ CallPrintOnNewLine
    \/ CallSetConsoleLocked

Spec == Init /\ [][Next]_vars

\* ------------------------------------------------------------ the claims
Contains(hay, needle) == \E i \in 1..(Len(hay) + 1) : IsPrefixAt(needle, hay, i)

LockedBy(c) == c.op = "SetConsoleLocked" /\ c.locked /\ ~c.before
UnlockedBy(c) == c.op = "SetConsoleLocked" /\ ~c.locked /\ c.before
CursorOnBlankLine(t) == t.col = 0 /\ t.line = <<>>

\* The terminal once the bytes that stdout's buffer holds have reached it:
\* where the next byte written lands.
Flushed == TtyWrite(tty, stdio.bytes, stdio.via, 1)

\* C1: while the console is locked no call writes a byte to stdout; the one
\* call that ends with the console locked and has written is the locking
\* itself, and it has written the line-clear sequence only.
C1_LockedConsoleWritesNothing ==
    console_locked_ => out = IF LockedBy(call) THEN LineClear ELSE <<>>

\* A raw write, a status line and a repeated locking have all been made on
\* the locked console: the buffers are filled and stdout has nothing.
C1_Witness ==
    /\ console_locked_
    /\ call.op = "SetConsoleLocked" /\ call.locked /\ call.before
    /\ output_buffer_ = <<"a", "\n">>
    /\ line_buffer_ = <<"a">>

\* C2: while locked output_buffer_ only grows at its end; the unlocking
\* writes output_buffer_ as it is, then what Print makes of the pending line
\* (nothing when there is none), and leaves both buffers empty, so that no
\* byte is there to be written again.
C2_UnlockReplaysBufferOnce ==
    [][/\ (console_locked_ /\ console_locked_')
            => IsPrefixAt(output_buffer_, output_buffer_', 1)
       /\ (console_locked_ /\ ~console_locked_')
            => /\ IsPrefixAt(output_buffer_, out', 1)
               /\ LET rest == SubSeq(out', Len(output_buffer_) + 1, Len(out'))
                      unlocked == [Self EXCEPT !.console_locked_ = FALSE]
                  IN  IF line_buffer_ = <<>> THEN rest = <<>>
                      ELSE \E env \in Envs(line_type_) :
                             rest = LinePrinter_Print(unlocked, line_buffer_,
                                                      line_type_, env).stdout
               /\ output_buffer_' = <<>>
               /\ line_buffer_' = <<>>]_vars

\* An unlocking has replayed raw output and then rendered a pending status
\* line over the cursor's line.
C2_Witness ==
    /\ UnlockedBy(call)
    /\ out = <<"a", "\n", "\r", "a">> \o ClearToEol

\* C3: with the console unlocked line_buffer_ and output_buffer_ are empty.
C3_BuffersEmptyWhenUnlocked ==
    ~console_locked_ => line_buffer_ = <<>> /\ output_buffer_ = <<>>

\* An unlocking that had a buffer and a pending FULL line to write.
C3_Witness ==
    /\ UnlockedBy(call)
    /\ ~console_locked_
    /\ Contains(out, <<"\n", "a", "a", "\n">>)

\* C4 (as claimed): after Print, PrintOnNewLine or PrintWithoutNewLine on the
\* unlocked console of a terminal have_blank_line_ is true exactly when the
\* bytes written so far leave the cursor at column 0 of an empty line.
C4_BlankLineFlagIsExact ==
    (/\ call.op \in {"Print", "PrintOnNewLine", "PrintWithoutNewLine"}
     /\ ~call.before
     /\ stdout_isatty)
      => (have_blank_line_ <=> CursorOnBlankLine(Flushed))

\* C5 (as claimed): a FULL line handed to Print is written with a newline
\* after it: at once on the unlocked console, and by the unlocking when it
\* was handed over while the console was locked (followed here for the text
\* WatchedText), whatever was handed to Print after it.
C5_FullLineIsWritten ==
    /\ (call.op = "Print" /\ ~call.before /\ call.type = FULL)
         => \/ Contains(out, call.text \o <<"\n">>)
            \/ Contains(out, CustomFormat(call.text) \o <<"\n">>)
    /\ (UnlockedBy(call) /\ full_owed)
         => \/ Contains(out, WatchedText \o <<"\n">>)
            \/ Contains(out, CustomFormat(WatchedText) \o <<"\n">>)

\* C6 (as claimed): on a smart terminal no call overwrites or erases a cell
\* that the raw-write path filled.
C6_RawOutputIsKept == smart_terminal_ => ~tty.damaged

\* C7 (as claimed): on a smart terminal in singleline mode, through a status
\* line, a lock, status lines and whole raw lines, the unlock and further
\* whole raw lines, the terminal shows no empty line above a non-empty one.
C7_BracketLeavesNoBlankLine ==
    (/\ bracket \in {"status", "locked", "after"}
     /\ smart_terminal_
     /\ status_print_mode = "singleline")
      => /\ ~tty.gap
         /\ ~(tty.blank_above /\ tty.line # <<>>)

\* C8 (as claimed): on the unlocked console of a terminal the first byte of
\* a non-empty text given to PrintOnNewLine lands at column 0 of an empty
\* line.
C8_PrintOnNewLineStartsALine ==
    [][(/\ call'.op = "PrintOnNewLine" /\ ~call'.before /\ call'.text # <<>>
        /\ stdout_isatty)
         => LET lead == SubSeq(out', 1, Len(out') - Len(call'.text))
                at == TtyWrite(Flushed, lead,
                               [i \in 1..Len(lead) |-> "fwrite"], 1)
            IN  CursorOnBlankLine(at)]_vars

\* C9: locking an unlocked console writes the line-clear sequence and
\* changes console_locked_ only; unlocking it again before any other call
\* writes nothing and leaves every member and static as before the locking.
C9_LockUnlockChangesNothing ==
    snap.kind = "bracket"
      => IF console_locked_
         THEN /\ out = LineClear
              /\ Members = [snap.obj EXCEPT !.console_locked_ = TRUE]
         ELSE /\ out = <<>>
              /\ Members = snap.obj

\* A lock/unlock pair made with a status line on the cursor's line.
C9_Witness ==
    /\ snap.kind = "bracket"
    /\ UnlockedBy(call)
    /\ ~have_blank_line_
    /\ reformat_mode = "pretty"

\* C10: SetConsoleLocked(b) on a console whose lock already is b writes
\* nothing and changes no member and no static.
C10_RepeatedLockIsNoOp ==
    (call.op = "SetConsoleLocked" /\ call.locked = call.before)
      => /\ snap.kind = "repeat"
         /\ out = <<>>
         /\ Members = snap.obj

\* SetConsoleLocked(true) on a locked console that holds a pending line and
\* buffered output.
C10_Witness ==
    /\ call.op = "SetConsoleLocked" /\ call.locked /\ call.before
    /\ line_buffer_ = LongText
    /\ output_buffer_ = <<"\n", "a">>

\* C11: a PrintOnNewLine("") made right after a PrintOnNewLine("") writes
\* nothing to stdout, adds nothing to output_buffer_ and changes no member
\* and no static, on the locked and on the unlocked console.
C11_PrintOnNewLineEmptyTwice ==
    (call.op = "PrintOnNewLine" /\ call.text = <<>>)
      => LET again == PrintOnNewLine(Self, <<>>)
         IN  /\ again.stdout = <<>>
             /\ [f \in DOMAIN Members |-> again[f]] = Members

\* The first PrintOnNewLine("") moved a pending line into the buffer of the
\* locked console and put a newline after it.
C11_Witness ==
    /\ call.op = "PrintOnNewLine" /\ call.text = <<>> /\ call.before
    /\ output_buffer_ = <<"a", "\n", "\n">>

\* C12: in multiline mode a Print on the unlocked console, for either line
\* type and on every terminal, writes the text (reformatted when the reformat
\* mode is pretty) and one newline after it, with no carriage return and no
\* clear-to-end-of-line sequence; on a terminal all of it has arrived, the
\* cursor is on a new empty line and nothing has been overwritten.
C12_MultilineAppendsLines ==
    (call.op = "Print" /\ ~call.before /\ status_print_mode = "multiline")
      => /\ out = (IF reformat_mode = "pretty" THEN CustomFormat(call.text)
                   ELSE call.text) \o <<"\n">>
         /\ ~Contains(out, <<"\r">>)
         /\ ~Contains(out, ClearToEol)
         /\ stdio = NoStdio
         /\ CursorOnBlankLine(tty)
         /\ ~tty.damaged

\* An ELIDE line printed in multiline mode on a smart terminal, under a line
\* that is not empty.
C12_Witness ==
    /\ call.op = "Print" /\ ~call.before /\ call.type = ELIDE
    /\ smart_terminal_
    /\ status_print_mode = "multiline"
    /\ out = <<"a", "\n">>
    /\ ~tty.blank_above

\* C13: in singleline mode on a smart terminal a Print of an ELIDE line
\* without newlines on the unlocked console writes a carriage return, the
\* text (reformatted in pretty mode, elided to the window's width when the
\* window reports one) and the clear-to-end-of-line sequence, and no newline;
\* the cursor's line then shows that text and nothing else.
C13_StatusLinesOverwrite ==
    (/\ call.op = "Print" /\ ~call.before /\ call.type = ELIDE
     /\ \A i \in 1..Len(call.text) : call.text[i] # "\n"
     /\ smart_terminal_
     /\ status_print_mode = "singleline")
      => LET text == IF reformat_mode = "pretty" THEN CustomFormat(call.text)
                     ELSE call.text
         IN  \E w \in WinSizes :
               LET shown == IF w.rc = 0 /\ w.ws_col # 0
                            THEN ElideMiddle(text, w.ws_col) ELSE text
               IN  /\ out = <<"\r">> \o shown \o ClearToEol
                   /\ ~Contains(out, <<"\n">>)
                   /\ stdio = NoStdio
                   /\ [i \in 1..Len(tty.line) |-> tty.line[i].ch] = shown
                   /\ ~have_blank_line_

\* A one-character status line is what the cursor's line shows.
C13_Witness ==
    /\ call.op = "Print" /\ ~call.before /\ call.type = ELIDE
    /\ smart_terminal_
    /\ status_print_mode = "singleline"
    /\ out = <<"\r", "a">> \o ClearToEol
    /\ tty.line = <<[ch |-> "a", raw |-> FALSE]>>

\* C14: in every state, for every text and every argument, each of the four
\* operations runs to its end without reading the first or the last
\* character of an empty string and without reading a line_type_ that was
\* never set; a pending line always has its type.
C14_EveryCallCompletes ==
    /\ \A text \in Texts :
         /\ ~PrintWithoutNewLine(Self, text).fault
         /\ ~PrintOnNewLine(Self, text).fault
         /\ \A type \in LineType : \A env \in Envs(type) :
              ~LinePrinter_Print(Self, text, type, env).fault
    /\ \A locked \in BOOLEAN :
         \A env \in Envs(IF line_type_ = ELIDE THEN ELIDE ELSE FULL) :
           ~SetConsoleLocked(Self, locked, env).fault
    /\ line_buffer_ # <<>> => line_type_ \in LineType

\* An unlocking that replayed an empty output_buffer_ and rendered a pending
\* line.
C14_Witness ==
    /\ UnlockedBy(call)
    /\ out = <<"\r", "a">> \o ClearToEol

\* C15 (as claimed): after construction smart_terminal_ is true exactly when
\* stdout is a terminal and TERM is not "dumb", an unset TERM included.
C15_SmartUnlessDumb ==
    call.op = "LinePrinter"
      => (smart_terminal_ <=> (call.isatty /\ call.term # "dumb"))

\* C15 (amended): after construction smart_terminal_ is true exactly when
\* stdout is a terminal and TERM is set and is not "dumb".
C15_SmartWhenTermSetAndNotDumb ==
    call.op = "LinePrinter"
      => (smart_terminal_ <=>
            (call.isatty /\ call.term # NULL /\ call.term # "dumb"))

\* Constructed on a terminal with TERM unset.
C15_Witness ==
    /\ call.op = "LinePrinter"
    /\ call.isatty
    /\ call.term = NULL
    /\ ~smart_terminal_

\* The object with the static of GetStatusPrintMode replaced.
WithStatusPrintMode(mode) == [Self EXCEPT !.status_print_mode = mode]

\* Two outcomes of a call agree in the bytes written, in how many of them
\* have gone to the device, and in every member
\* and static, the status print mode apart, where one may be scrolling and
\* the other singleline.
SameButScrolling(a, b) ==
    /\ a.stdout = b.stdout
    /\ a.delivered = b.delivered
    /\ \A f \in DOMAIN Members \ {"status_print_mode"} : a[f] = b[f]
    /\ \/ a.status_print_mode = b.status_print_mode
       \/ (a.status_print_mode = "scrolling"
             /\ b.status_print_mode = "singleline")

\* C16: every call made in scrolling mode writes the bytes and leaves the
\* members that the same call makes and leaves on the same object in
\* singleline mode; and a first read of the environment that finds
\* "scrolling" does what one that finds the variable unset does.
C16_ScrollingIsSingleline ==
    /\ status_print_mode = "scrolling"
         => LET single == WithStatusPrintMode("singleline")
            IN  /\ \A text \in Texts :
                     /\ SameButScrolling(PrintWithoutNewLine(Self, text),
                                         PrintWithoutNewLine(single, text))
                     /\ SameButScrolling(PrintOnNewLine(Self, text),
                                         PrintOnNewLine(single, text))
                     /\ \A type \in LineType : \A env \in Envs(type) :
                          SameButScrolling(
                            LinePrinter_Print(Self, text, type, env),
                            LinePrinter_Print(single, text, type, env))
                /\ \A locked \in BOOLEAN :
                     \A env \in Envs(IF line_type_ = ELIDE THEN ELIDE ELSE FULL) :
                       SameButScrolling(SetConsoleLocked(Self, locked, env),
                                        SetConsoleLocked(single, locked, env))
    /\ status_print_mode = Uninitialized
         => /\ \A text \in Texts : \A type \in LineType : \A env \in Envs(type) :
                 SameButScrolling(
                   LinePrinter_Print(Self, text, type,
                                     [env EXCEPT !.status = "scrolling"]),
                   LinePrinter_Print(Self, text, type,
                                     [env EXCEPT !.status = NULL]))
            /\ \A locked \in BOOLEAN :
                 \A env \in Envs(IF line_type_ = ELIDE THEN ELIDE ELSE FULL) :
                   SameButScrolling(
                     SetConsoleLocked(Self, locked,
                                      [env EXCEPT !.status = "scrolling"]),
                     SetConsoleLocked(Self, locked,
                                      [env EXCEPT !.status = NULL]))

\* In scrolling mode a status line went over the cursor's line of a smart
\* terminal, elided to a narrow window.
C16_Witness ==
    /\ status_print_mode = "scrolling"
    /\ smart_terminal_
    /\ call.op = "Print" /\ ~call.before /\ call.type = ELIDE
    /\ out = <<"\r">> \o ElideMiddle(LongText, NarrowCols) \o ClearToEol

\* C17: a Print on the locked console stores the text (reformatted in pretty
\* mode) and the line type of this call as the pending line, writes nothing
\* and leaves output_buffer_, have_blank_line_, console_locked_ and the rest
\* of the object as they were; the pending line from before is gone.
C17_LockedPrintStoresPendingOnly ==
    [][(call'.op = "Print" /\ console_locked_)
         => /\ line_buffer_' = IF reformat_mode' = "pretty"
                               THEN CustomFormat(call'.text)
                               ELSE call'.text
            /\ line_type_' = call'.type
            /\ out' = <<>>
            /\ UNCHANGED <<output_buffer_, have_blank_line_, console_locked_,
                           smart_terminal_, status_print_mode>>]_vars

\* A reformatted ELIDE line is pending on a locked console that holds
\* buffered output.
C17_Witness ==
    /\ call.op = "Print" /\ call.before
    /\ call.text = LongText /\ call.type = ELIDE
    /\ reformat_mode = "pretty"
    /\ line_buffer_ = CustomFormat(LongText)
    /\ line_type_ = ELIDE
    /\ output_buffer_ = <<"a", "\n">>

\* What Print writes on the unlocked console for a text that is to be written
\* as it is, whatever the environment still has to say.
PrintsAsItIs(text, type) ==
    {LinePrinter_Print([Self EXCEPT !.console_locked_ = FALSE,
                                     !.reformat_mode = "none"],
                       text, type,
                       [reformat |-> NULL, status |-> st, winsize |-> w]).stdout :
       st \in StatusEnvValues, w \in WinSizes}

\* C18 (as claimed): in pretty mode the bytes of a Print on the unlocked
\* console are those of the caller's text reformatted once, and the bytes
\* the unlocking writes for the pending line, which holds the caller's text
\* reformatted once, are those of the pending line as it is.
C18_ReformatAppliedOnce ==
    [][/\ (call'.op = "Print" /\ ~console_locked_ /\ reformat_mode' = "pretty")
            => out' \in PrintsAsItIs(CustomFormat(call'.text), call'.type)
       /\ (/\ console_locked_ /\ ~console_locked_'
           /\ line_buffer_ # <<>>
           /\ reformat_mode = "pretty")
            => SubSeq(out', Len(output_buffer_) + 1, Len(out'))
                 \in PrintsAsItIs(line_buffer_, line_type_)]_vars

\* C19 (as claimed): with a terminal that is not smart and the reformat mode
\* none, no call writes a carriage return or an escape character (the texts
\* of the callers have neither).
C19_PlainStreamGetsNoControlBytes ==
    (~smart_terminal_ /\ reformat_mode = "none")
      => /\ ~Contains(out, <<"\r">>)
         /\ ~Contains(out, <<ESC>>)

\* C20 (as claimed): when PrintWithoutNewLine or PrintOnNewLine moves the
\* pending line of the locked console into output_buffer_, the buffer is
\* empty or ends with a newline; the line and one newline are appended, and
\* the caller's text comes right after that newline.
C20_PendingLineStartsALine ==
    [][(/\ call'.op \in {"PrintWithoutNewLine", "PrintOnNewLine"}
        /\ console_locked_
        /\ line_buffer_ # <<>>)
         => /\ \/ output_buffer_ = <<>>
               \/ output_buffer_[Len(output_buffer_)] = "\n"
            /\ output_buffer_' =
                 output_buffer_ \o line_buffer_ \o <<"\n">> \o call'.text]_vars
====
